---- MODULE Spec2Model ----
(***************************************************************************)
(* Model of the session-backed authentication workflow of main.go:         *)
(* the users table (gorm/SQLite), the in-memory session store              *)
(* (fiber session middleware), bcrypt hashing, and the request handlers    *)
(* handleLogin, handleRegister, authRequired, handleDashboard,             *)
(* handleLogout and the page GETs.  Handlers run concurrently, one per     *)
(* request; every access to the database or to the session storage is one *)
(* atomic step, and the local computation around it belongs to that step.  *)
(***************************************************************************)
EXTENDS Integers, Sequences, FiniteSets, TLC

(* ------------------------------ bounds --------------------------------- *)

\* Number of session ids the KeyGenerator can hand out in one behaviour.
MaxTokens == 1

\* Number of times the clock advances.
MaxTicks == 1

(* ------------------------- program constants --------------------------- *)

\* session.Config.Expiration, in hours.
Expiration == 24

\* Hours the clock advances in one step: one expiration period.
TickHours == Expiration

\* A finer step of the clock: half an expiration period.
FineTick == Expiration \div 2

\* len(password) < 6 is rejected by handleRegister.
MinPasswordLen == 6

\* bcrypt.GenerateFromPassword rejects passwords longer than 72 bytes.
BcryptMaxLen == 72

DemoEmail == "demo@glassauth.io"
DemoPassword == "demo2024"

(* ------------------------------ inputs --------------------------------- *)

\* A 73-byte password: one byte more than bcrypt accepts.
LongPassword ==
  "0123456789012345678901234567890123456789012345678901234567890123456789012"

\* Form values of the email field; "" is an empty or missing field.
Emails == {"", "a@b.com", DemoEmail}

\* Form values of the password fields of /register: 5, 6 and 73 bytes long.
Passwords == {"abcde", "abcdef", LongPassword}

\* Form values of the password field of /login.
LoginPasswords == {"abcdef", DemoPassword}

\* The request carries no session cookie.
NoCookie == ""

\* A cookie value chosen by the client, never generated by the server.
ForgedToken == "forged"

\* The ids the KeyGenerator produces, in the order in which they are saved.
TokenPool == <<"sid1", "sid2", "sid3", "sid4">>

\* The keys of the session storage: the ids that can be saved.
Tokens == {TokenPool[i] : i \in 1..MaxTokens + 1}

\* The id of a session object that store.Get has just generated: a random
\* UUID that nothing but the object holds until sess.Save() stores it and
\* sends it in the cookie; it is drawn from TokenPool there.
NewID == "new"

\* The concurrent handler invocations.
Reqs == {1, 2}

(* ------------------------------- state --------------------------------- *)

VARIABLES
  users,          \* the users table, in insertion order
  sessions,       \* the session storage: token -> entry
  now,            \* the clock, in hours
  nIssued,        \* number of generated session ids that were saved
  up,             \* the process is running
  req,            \* the handler invocations
  limits          \* what a behaviour explores: the handler invocations in
                  \* use, the session ids that can be saved, the clock step,
                  \* the emails the forms carry

vars == <<users, sessions, now, nIssued, up, req, limits>>

(* ------------------------------ users ---------------------------------- *)

\* The zero value of User.
ZeroUser == [ID |-> 0, Email |-> "", Password |-> ""]

\* bcrypt.GenerateFromPassword: the hash is a non-empty string that is not
\* the plaintext (the random salt is left out: nothing compares two hashes).
Hash(password) == "$2a$10$" \o password

HashFails(password) == Len(password) > BcryptMaxLen

\* Faulty variant: the comparison accepts every password.
VerifyAny(hash, password) == TRUE

\* bcrypt.CompareHashAndPassword(hash, password) == nil
Verify(hash, password) == hash = Hash(password)

\* db.Where("email = ?", email).First(&user): the rows with that email.
Matching(us, email) == {i \in 1..Len(us) : us[i].Email = email}

\* Faulty variant: the lookup never finds a row.
FindErrorAlways(us, email) == TRUE

FindError(us, email) == Matching(us, email) = {}

\* Faulty variant: the query returns the first row of the table.
FindFirstRow(us, email) == IF Len(us) = 0 THEN ZeroUser ELSE us[1]

\* First(&user): the row with the lowest primary key among them.
FindFirst(us, email) ==
  IF FindError(us, email) THEN ZeroUser
  ELSE us[CHOOSE i \in Matching(us, email) :
            \A j \in Matching(us, email) : i <= j]

\* Faulty variant: the column has no unique index.
NoUniqueIndex(us, email) == FALSE

\* The uniqueIndex on Email rejects the insert.
UniqueViolation(us, email) == \E i \in 1..Len(us) : us[i].Email = email

\* db.Create(&user) when it succeeds: the row with its new primary key.
NewUser(us, email, hash) ==
  [ID |-> Len(us) + 1, Email |-> email, Password |-> hash]

\* Faulty variant: a start replaces the table by one with the demo user.
SeedReset(us) == << NewUser(<< >>, DemoEmail, Hash(DemoPassword)) >>

\* Faulty variant: the demo user is inserted at every start.
SeedAlways(us) == Append(us, NewUser(us, DemoEmail, Hash(DemoPassword)))

\* seedDemoUser
SeedDemoUser(us) ==
  IF Len(us) = 0
    THEN Append(us, NewUser(us, DemoEmail, Hash(DemoPassword)))
    ELSE us

(* ----------------------------- sessions -------------------------------- *)

\* Session data: the keys that are set, and their values.
EmptyData == [keys |-> {}, userID |-> 0, userEmail |-> ""]

NoEntry == [present |-> FALSE, data |-> EmptyData, expires |-> 0]

\* sess.Get("userID") == nil
UserIDIsNil(data) == "userID" \notin data.keys

\* sess.Get("userEmail").(string) panics
EmailAssertPanics(data) == "userEmail" \notin data.keys

\* Faulty variant: only userID is set.
SetUserIDOnly(data, user) ==
  [keys |-> data.keys \cup {"userID"},
   userID |-> user.ID, userEmail |-> data.userEmail]

\* sess.Set("userID", user.ID); sess.Set("userEmail", user.Email)
SetUser(data, user) ==
  [keys |-> data.keys \cup {"userID", "userEmail"},
   userID |-> user.ID, userEmail |-> user.Email]

\* Storage.Get(id) returns data: the entry exists and has not expired.
Live(ss, t, time) ==
  /\ t \in Tokens
  /\ ss[t].present
  /\ ss[t].expires > time

\* store.Get(c) generates a new id: the request has no cookie, or the
\* storage has no data for the id in the cookie (session middleware of
\* fiber v2.52.5 and later).
NeedsNewID(ss, cookie, time) ==
  \/ cookie = NoCookie
  \/ ~Live(ss, cookie, time)

\* store.Get(c): the session object, its id and a copy of the stored data.
StoreGet(ss, cookie, time) ==
  IF NeedsNewID(ss, cookie, time)
    THEN [id |-> NewID, data |-> EmptyData]
    ELSE [id |-> cookie, data |-> ss[cookie].data]

\* Faulty variant: every session is stored under the same id.
SavedIDShared(sess, n) == TokenPool[1]

\* The id under which sess.Save() stores the session.
SavedID(sess, n) == IF sess.id = NewID THEN TokenPool[n + 1] ELSE sess.id

\* sess.Save(): Storage.Set(id, data, Expiration)
Save(ss, sess, time, n) ==
  [ss EXCEPT ![SavedID(sess, n)] =
     [present |-> TRUE, data |-> sess.data, expires |-> time + Expiration]]

\* Faulty variant: the entry stays in the storage.
DestroyNothing(ss, sess) == ss

\* Faulty variant: every entry of the storage is deleted.
DestroyAll(ss, sess) == [t \in Tokens |-> NoEntry]

\* sess.Destroy(): Storage.Delete(id)
Destroy(ss, sess) ==
  IF sess.id \in Tokens THEN [ss EXCEPT ![sess.id] = NoEntry] ELSE ss

(* ----------------------------- requests -------------------------------- *)

NoSess == [id |-> NoCookie, data |-> EmptyData]

Idle ==
  [pc |-> "idle", kind |-> "", email |-> "", password |-> "", confirm |-> "",
   cookie |-> NoCookie, user |-> ZeroUser, sess |-> NoSess,
   status |-> "", target |-> "", msg |-> "", setCookie |-> NoCookie]

\* A request as it enters its handler.
Arrive(kind, email, password, confirm) ==
  [Idle EXCEPT !.kind = kind, !.email = email, !.password = password,
               !.confirm = confirm]

\* The handler returns: its locals are gone, the response stays.
Return(q) == [q EXCEPT !.pc = "done", !.user = ZeroUser, !.sess = NoSess]

\* c.Redirect(target)
Redirect(q, target) ==
  [Return(q) EXCEPT !.status = "redirect", !.target = target]

\* c.SendString(render...Page(msg))
Page(q, page, msg) ==
  [Return(q) EXCEPT !.status = "page", !.target = page, !.msg = msg]

\* The type assertion fails: the handler panics.
Panic(q) == [Return(q) EXCEPT !.status = "panic"]

\* The cookies a client can present: none, one of its own making, or an id
\* the server has sent.
Cookies(n) == {NoCookie, ForgedToken} \cup {TokenPool[i] : i \in 1..n}

\* The state after main has run on an empty database file.
Started ==
  /\ users = SeedDemoUser(<< >>)
  /\ sessions = [t \in Tokens |-> NoEntry]
  /\ now = 0
  /\ nIssued = 0
  /\ up = TRUE
  /\ req = [r \in Reqs |-> Idle]

\* Concurrent requests, a clock that steps by expiration periods.
Init ==
  /\ Started
  /\ limits = [lanes |-> Reqs, tokens |-> MaxTokens, tick |-> TickHours,
               emails |-> Emails]

\* One request at a time, one more session id, a clock that steps by half
\* expiration periods.
InitSerial ==
  /\ Started
  /\ limits = [lanes |-> {1}, tokens |-> MaxTokens + 1, tick |-> FineTick,
               emails |-> Emails]

\* Concurrent requests, one more session id, a clock that steps by
\* expiration periods, and the emails that are not empty.
InitPair ==
  /\ Started
  /\ limits = [lanes |-> Reqs, tokens |-> MaxTokens + 1, tick |-> TickHours,
               emails |-> Emails \ {""}]

(* ------------------------------ actions -------------------------------- *)

\* The process is up, and every response produced has been sent: a handler
\* that has returned is over before anything else happens.
Running == up /\ \A r \in Reqs : req[r].pc # "done"

\* A request enters the handler invocation r; of two free invocations the
\* first is taken (they are interchangeable).
Ready(r) ==
  /\ Running
  /\ r \in limits.lanes
  /\ req[r].pc = "idle"
  /\ \A o \in Reqs : o < r => req[o].pc # "idle"

At(r, kind, pc) == Running /\ req[r].kind = kind /\ req[r].pc = pc

\* handleIndex
HandleIndex(r) ==
  /\ Ready(r)
  /\ req' = [req EXCEPT ![r] = Redirect(Arrive("index", "", "", ""), "/login")]
  /\ UNCHANGED <<users, sessions, now, nIssued, up, limits>>

\* handleLoginPage
HandleLoginPage(r) ==
  /\ Ready(r)
  /\ req' = [req EXCEPT ![r] = Page(Arrive("loginPage", "", "", ""), "login", "")]
  /\ UNCHANGED <<users, sessions, now, nIssued, up, limits>>

\* handleRegisterPage
HandleRegisterPage(r) ==
  /\ Ready(r)
  /\ req' = [req EXCEPT ![r] =
               Page(Arrive("registerPage", "", "", ""), "register", "")]
  /\ UNCHANGED <<users, sessions, now, nIssued, up, limits>>

\* handleLogin: the lookup by email and the comparison of the hash.
LoginResult(us, q) ==
  IF FindError(us, q.email)
    THEN Page(q, "login", "Invalid credentials")
  ELSE IF ~Verify(FindFirst(us, q.email).Password, q.password)
    THEN Page(q, "login", "Invalid credentials")
  ELSE [q EXCEPT !.pc = "sess", !.user = FindFirst(us, q.email)]

\* Faulty variant: a failed Login empties the session storage.
LoginLookupResetting(r) ==
  /\ Ready(r)
  /\ \E email \in limits.emails, password \in LoginPasswords :
       req' = [req EXCEPT ![r] =
                 LoginResult(users, Arrive("login", email, password, ""))]
  /\ sessions' = IF req'[r].pc = "done" THEN [t \in Tokens |-> NoEntry]
                 ELSE sessions
  /\ UNCHANGED <<users, now, nIssued, up, limits>>

LoginLookup(r) ==
  /\ Ready(r)
  /\ \E email \in limits.emails, password \in LoginPasswords :
       req' = [req EXCEPT ![r] =
                 LoginResult(users, Arrive("login", email, password, ""))]
  /\ UNCHANGED <<users, sessions, now, nIssued, up, limits>>

\* sess, _ := store.Get(c), for a request q that carries this cookie.
WithSession(q, cookie) ==
  [q EXCEPT !.cookie = cookie, !.sess = StoreGet(sessions, cookie, now)]

\* The session object after the two sess.Set calls.
Authenticated(q) == [q EXCEPT !.sess.data = SetUser(q.sess.data, q.user)]

\* store.Get and the two sess.Set calls in handleLogin and handleRegister.
GetStep(r) ==
  /\ \E cookie \in Cookies(nIssued) :
       req' = [req EXCEPT ![r] =
                 [Authenticated(WithSession(req[r], cookie)) EXCEPT
                    !.pc = "save"]]
  /\ UNCHANGED <<users, sessions, now, nIssued, up, limits>>

\* sess.Save(); c.Redirect("/dashboard")
SaveStep(r) ==
  /\ req[r].sess.id = NewID => nIssued < limits.tokens
  /\ sessions' = Save(sessions, req[r].sess, now, nIssued)
  /\ nIssued' = IF req[r].sess.id = NewID THEN nIssued + 1 ELSE nIssued
  /\ req' = [req EXCEPT ![r] =
               [Redirect(req[r], "/dashboard") EXCEPT
                  !.setCookie = SavedID(req[r].sess, nIssued)]]
  /\ UNCHANGED <<users, now, up, limits>>

\* handleLogin: store.Get, Set, Set
LoginGet(r) == At(r, "login", "sess") /\ GetStep(r)

\* handleLogin: Save, Redirect
LoginSave(r) == At(r, "login", "save") /\ SaveStep(r)

\* Faulty variant: the confirmation is not compared.
MismatchIgnored(password, confirm) == FALSE

PasswordMismatch(password, confirm) == password # confirm

\* Faulty variant: the comparison is off by one.
TooShortOffByOne(password) == Len(password) <= MinPasswordLen

PasswordTooShort(password) == Len(password) < MinPasswordLen

\* Faulty variant: the email is looked up before the passwords are checked.
RegisterResultDuplicateFirst(us, q) ==
  IF ~FindError(us, q.email)
    THEN Page(q, "register", "Email already registered")
  ELSE IF PasswordMismatch(q.password, q.confirm)
    THEN Page(q, "register", "Passwords do not match")
  ELSE IF PasswordTooShort(q.password)
    THEN Page(q, "register", "Password must be at least 6 characters")
  ELSE IF HashFails(q.password)
    THEN Page(q, "register", "Registration failed")
  ELSE [q EXCEPT !.pc = "create",
                 !.user = [ZeroUser EXCEPT !.Email = q.email,
                                           !.Password = Hash(q.password)]]

\* handleRegister up to the hash: the two validations, the lookup of the
\* email, and bcrypt.GenerateFromPassword.
RegisterResult(us, q) ==
  IF PasswordMismatch(q.password, q.confirm)
    THEN Page(q, "register", "Passwords do not match")
  ELSE IF PasswordTooShort(q.password)
    THEN Page(q, "register", "Password must be at least 6 characters")
  ELSE IF ~FindError(us, q.email)
    THEN Page(q, "register", "Email already registered")
  ELSE IF HashFails(q.password)
    THEN Page(q, "register", "Registration failed")
  ELSE [q EXCEPT !.pc = "create",
                 !.user = [ZeroUser EXCEPT !.Email = q.email,
                                           !.Password = Hash(q.password)]]

RegisterCheck(r) ==
  /\ Ready(r)
  /\ \E email \in limits.emails, password \in Passwords, confirm \in Passwords :
       req' = [req EXCEPT ![r] =
                 RegisterResult(users,
                   Arrive("register", email, password, confirm))]
  /\ UNCHANGED <<users, sessions, now, nIssued, up, limits>>

\* handleRegister: db.Create(&user)
RegisterCreate(r) ==
  /\ At(r, "register", "create")
  /\ IF UniqueViolation(users, req[r].user.Email)
       THEN /\ req' = [req EXCEPT ![r] =
                         Page(req[r], "register", "Registration failed")]
            /\ UNCHANGED users
       ELSE /\ users' = Append(users, NewUser(users, req[r].user.Email,
                                              req[r].user.Password))
            /\ req' = [req EXCEPT ![r].pc = "sess",
                                  ![r].user = NewUser(users, req[r].user.Email,
                                                      req[r].user.Password)]
  /\ UNCHANGED <<sessions, now, nIssued, up, limits>>

\* handleRegister: store.Get, Set, Set
RegisterGet(r) == At(r, "register", "sess") /\ GetStep(r)

\* handleRegister: Save, Redirect
RegisterSave(r) == At(r, "register", "save") /\ SaveStep(r)

\* authRequired
GuardResult(q) ==
  IF UserIDIsNil(q.sess.data) THEN Redirect(q, "/login")
  ELSE [q EXCEPT !.pc = "handler", !.sess = NoSess]

\* Faulty variant: the guard renews the expiry of the session it reads.
AuthRequiredTouch(r) ==
  /\ Ready(r)
  /\ \E cookie \in Cookies(nIssued) :
       /\ req' = [req EXCEPT ![r] =
                    GuardResult(WithSession(Arrive("dashboard", "", "", ""),
                                            cookie))]
       /\ sessions' = IF Live(sessions, cookie, now)
                        THEN [sessions EXCEPT
                                ![cookie].expires = now + Expiration]
                        ELSE sessions
  /\ UNCHANGED <<users, now, nIssued, up, limits>>

AuthRequired(r) ==
  /\ Ready(r)
  /\ \E cookie \in Cookies(nIssued) :
       req' = [req EXCEPT ![r] =
                 GuardResult(WithSession(Arrive("dashboard", "", "", ""),
                                         cookie))]
  /\ UNCHANGED <<users, sessions, now, nIssued, up, limits>>

\* handleDashboard: a second store.Get, then the type assertion on
\* userEmail; a failed assertion panics, and no recover middleware is
\* installed, so the panic ends the process.
DashboardResult(q) ==
  IF EmailAssertPanics(q.sess.data) THEN Panic(q)
  ELSE Page(q, "dashboard", q.sess.data.userEmail)

HandleDashboard(r) ==
  /\ At(r, "dashboard", "handler")
  /\ req' = [req EXCEPT ![r] =
               DashboardResult(WithSession(req[r], req[r].cookie))]
  /\ up' = (req'[r].status # "panic")
  /\ UNCHANGED <<users, sessions, now, nIssued, limits>>

\* handleLogout: store.Get (Destroy resets the data it loaded unread)
LogoutGet(r) ==
  /\ Ready(r)
  /\ \E cookie \in Cookies(nIssued) :
       req' = [req EXCEPT ![r] =
                 [WithSession(Arrive("logout", "", "", ""), cookie) EXCEPT
                    !.pc = "destroy", !.sess.data = EmptyData]]
  /\ UNCHANGED <<users, sessions, now, nIssued, up, limits>>

\* handleLogout: sess.Destroy(); c.Redirect("/login")
LogoutDestroy(r) ==
  /\ At(r, "logout", "destroy")
  /\ sessions' = Destroy(sessions, req[r].sess)
  /\ req' = [req EXCEPT ![r] = Redirect(req[r], "/login")]
  /\ UNCHANGED <<users, now, nIssued, up, limits>>

\* The response has been sent; the invocation is over.
Finish(r) ==
  /\ up
  /\ req[r].pc = "done"
  /\ req' = [req EXCEPT ![r] = Idle]
  /\ UNCHANGED <<users, sessions, now, nIssued, up, limits>>

\* The storage has an entry that has expired.
Expired(ss, t, time) == ss[t].present /\ ss[t].expires <= time

\* The storage's collector, which runs every ten seconds, deletes the
\* expired entries.
Collect ==
  /\ \A r \in Reqs : req[r].pc # "done"
  /\ \E t \in Tokens : Expired(sessions, t, now)
  /\ sessions' = [t \in Tokens |->
                    IF Expired(sessions, t, now) THEN NoEntry ELSE sessions[t]]
  /\ UNCHANGED <<users, now, nIssued, up, req, limits>>

\* Time passes: a step of the clock is hours, so the collector has run
\* since the step before.
Tick ==
  /\ \A r \in Reqs : req[r].pc # "done"
  /\ \A t \in Tokens : ~Expired(sessions, t, now)
  /\ now < MaxTicks * Expiration
  /\ now' = now + limits.tick
  /\ UNCHANGED <<users, sessions, nIssued, up, req, limits>>

\* main, run again after a panic has ended the process, or after the
\* process was stopped with no request in flight: the database file is kept,
\* the session storage and the requests in flight are gone.
Restart ==
  /\ ~up \/ \A r \in Reqs : req[r].pc = "idle"
  /\ up' = TRUE
  /\ users' = SeedDemoUser(users)
  /\ sessions' = [t \in Tokens |-> NoEntry]
  /\ req' = [r \in Reqs |-> Idle]
  /\ UNCHANGED <<now, nIssued, limits>>

Next ==
  \/ \E r \in Reqs :
       \/ HandleIndex(r)
       \/ HandleLoginPage(r)
       \/ HandleRegisterPage(r)
       \/ LoginLookup(r)
       \/ LoginGet(r)
       \/ LoginSave(r)
       \/ RegisterCheck(r)
       \/ RegisterCreate(r)
       \/ RegisterGet(r)
       \/ RegisterSave(r)
       \/ AuthRequired(r)
       \/ HandleDashboard(r)
       \/ LogoutGet(r)
       \/ LogoutDestroy(r)
       \/ Finish(r)
  \/ Collect
  \/ Tick
  \/ Restart

Spec == Init /\ [][Next]_vars

SpecSerial == InitSerial /\ [][Next]_vars

SpecPair == InitPair /\ [][Next]_vars

(* ------------------------------ claims --------------------------------- *)

Done(r) == req[r].pc = "done"

\* The response is the redirect to /dashboard.
Success(q) == q.status = "redirect" /\ q.target = "/dashboard"

\* The response is a page with this message, and sets no cookie.
Shows(q, page, msg) ==
  /\ q.status = "page"
  /\ q.target = page
  /\ q.msg = msg
  /\ q.setCookie = NoCookie

\* The response is the redirect to /login.
ToLogin(q) == q.status = "redirect" /\ q.target = "/login"

\* A /register request whose handler has returned.
RegDone(r) == Done(r) /\ req[r].kind = "register"

\* The rows of a users table with this email.
RegisteredIn(us, email) == {i \in 1..Len(us) : us[i].Email = email}

Registered(email) == RegisteredIn(users, email)

\* The session named by the response's cookie is live and carries user u.
SessionOf(q, u) ==
  /\ q.setCookie \in Tokens
  /\ sessions[q.setCookie].present
  /\ sessions[q.setCookie].expires > now
  /\ sessions[q.setCookie].data.keys = {"userID", "userEmail"}
  /\ sessions[q.setCookie].data.userID = u.ID
  /\ sessions[q.setCookie].data.userEmail = u.Email

\* A request enters /register in this step.
RegisterArrives(r) == req[r].pc = "idle" /\ req'[r].kind = "register"

C2_DuplicateOutcome ==
  /\ \A e \in Emails : Cardinality(Registered(e)) <= 1
  /\ \A r \in Reqs :
       ( /\ RegDone(r)
         /\ req[r].email # ""
         /\ req[r].password = req[r].confirm
         /\ Len(req[r].password) >= 6
         /\ Len(req[r].password) <= 72
         /\ ~Success(req[r]) )
       => Shows(req[r], "register", "Email already registered")

\* C3: a Login with a registered email and its password ends with the
\* redirect to /dashboard and a live session carrying that user's ID and
\* email; every other Login ends with the same response, the login page
\* with "Invalid credentials" and no cookie.
C3_Login ==
  \A r \in Reqs :
    (Done(r) /\ req[r].kind = "login")
    => IF \E i \in Registered(req[r].email) :
            users[i].Password = Hash(req[r].password)
         THEN /\ Success(req[r])
              /\ \A i \in Registered(req[r].email) :
                   SessionOf(req[r], users[i])
         ELSE Shows(req[r], "login", "Invalid credentials")

C3_Witness ==
  \E r \in Reqs :
    /\ Done(r)
    /\ req[r].kind = "login"
    /\ req[r].email = "a@b.com"
    /\ Success(req[r])

\* C4: a /dashboard request whose cookie names no live session is
\* redirected to /login; one whose cookie names a live session gets the
\* dashboard with the email of that session; the handler never runs on a
\* session without userID (it never panics).
C4_Guard ==
  \A r \in Reqs :
    (Done(r) /\ req[r].kind = "dashboard")
    => IF Live(sessions, req[r].cookie, now)
         THEN /\ req[r].status = "page"
              /\ req[r].target = "dashboard"
              /\ req[r].msg = sessions[req[r].cookie].data.userEmail
         ELSE ToLogin(req[r])

\* C5: sess.Destroy() leaves no live session under the token; a token
\* without a live session gets one only by the Save of a successful Login
\* or Register; and a /dashboard request with a token without a live session
\* is redirected to /login at the guard, its payload not served.
C5_Logout ==
  [][ /\ \A r \in Reqs :
           (req[r].pc = "destroy" /\ req'[r].pc = "done")
           => /\ ~Live(sessions', req[r].sess.id, now')
              /\ ToLogin(req'[r])
      /\ \A t \in Tokens :
           (~Live(sessions, t, now) /\ Live(sessions', t, now'))
           => \E r \in Reqs :
                /\ req[r].pc = "save"
                /\ req[r].kind \in {"login", "register"}
                /\ Success(req'[r])
                /\ req'[r].setCookie = t
      /\ \A r \in Reqs :
           ( /\ req[r].pc = "idle"
             /\ req'[r].kind = "dashboard"
             /\ ~Live(sessions, req'[r].cookie, now) )
           => ToLogin(req'[r])
    ]_vars

\* A token the server has issued has no entry although no time has passed
\* (it was destroyed), and the /dashboard request with it is redirected.
C5_Witness ==
  \E r \in Reqs :
    /\ Done(r)
    /\ req[r].kind = "dashboard"
    /\ req[r].cookie \in Tokens
    /\ ~sessions[req[r].cookie].present
    /\ now = 0
    /\ ToLogin(req[r])

\* C6: a Register with valid passwords whose email is in the store ends
\* with "Email already registered", sets no cookie and changes neither the
\* users table nor the session storage; an insert adds exactly one row.
C6_DuplicateRegister ==
  [][ /\ \A r \in Reqs :
           ( /\ RegisterArrives(r)
             /\ req'[r].password = req'[r].confirm
             /\ Len(req'[r].password) >= 6
             /\ Registered(req'[r].email) # {} )
           => /\ req'[r].pc = "done"
              /\ Shows(req'[r], "register", "Email already registered")
              /\ users' = users
              /\ sessions' = sessions
      /\ Len(users') \in {Len(users), Len(users) + 1}
      /\ \A e \in Emails : Cardinality(RegisteredIn(users', e)) <= 1
    ]_vars

C6_Witness ==
  \E r \in Reqs :
    /\ RegDone(r)
    /\ req[r].email = "a@b.com"
    /\ Shows(req[r], "register", "Email already registered")

\* C7: no two rows of the users table have the same Email.
C7_UniqueEmail ==
  \A i, j \in 1..Len(users) : users[i].Email = users[j].Email => i = j

\* Two Registers with one email passed the existence check together, and
\* the insert of the second was rejected.
C7_Witness ==
  \E r \in Reqs :
    /\ RegDone(r)
    /\ Len(req[r].password) <= 72
    /\ Shows(req[r], "register", "Registration failed")

\* C8: every row of the users table has a non-empty Email and a non-empty
\* Password hash.
C8_NonEmpty ==
  \A i \in 1..Len(users) : users[i].Email # "" /\ users[i].Password # ""

\* C9: a Register with password # confirm_password ends with "Passwords do
\* not match" and changes neither the users table nor the session storage.
C9_Mismatch ==
  [][ \A r \in Reqs :
        (RegisterArrives(r) /\ req'[r].password # req'[r].confirm)
        => /\ req'[r].pc = "done"
           /\ Shows(req'[r], "register", "Passwords do not match")
           /\ users' = users
           /\ sessions' = sessions
           /\ nIssued' = nIssued
    ]_vars

C9_Witness ==
  \E r \in Reqs :
    /\ RegDone(r)
    /\ req[r].password # req[r].confirm
    /\ Shows(req[r], "register", "Passwords do not match")

\* C10: a Register with matching passwords of 5 bytes or less ends with the
\* length message and writes no user; one with matching passwords of exactly
\* 6 bytes succeeds unless a user with its email is in the store.
C10_Boundary ==
  [][ \A r \in Reqs :
        /\ ( /\ RegisterArrives(r)
             /\ req'[r].password = req'[r].confirm
             /\ Len(req'[r].password) <= 5 )
           => /\ req'[r].pc = "done"
              /\ Shows(req'[r], "register",
                       "Password must be at least 6 characters")
              /\ users' = users
        /\ ( /\ RegisterArrives(r)
             /\ req'[r].password = req'[r].confirm
             /\ Len(req'[r].password) = 6
             /\ Registered(req'[r].email) = {} )
           => req'[r].pc = "create"
        /\ ( /\ req'[r].pc = "done"
             /\ req'[r].kind = "register"
             /\ req'[r].password = req'[r].confirm
             /\ Len(req'[r].password) = 6
             /\ ~Success(req'[r]) )
           => RegisteredIn(users', req'[r].email) # {}
    ]_vars

C10_Witness ==
  \E r \in Reqs :
    /\ RegDone(r)
    /\ req[r].password = req[r].confirm
    /\ Len(req[r].password) = 6
    /\ Success(req[r])

\* The session under token t is saved in this step.
SavedAs(t) ==
  \E r \in Reqs :
    /\ req[r].pc = "save"
    /\ req'[r].pc = "done"
    /\ req'[r].setCookie = t

\* The storage holds no unexpired entry for this cookie.
NoLiveEntry(cookie) ==
  \/ cookie \notin Tokens
  \/ ~sessions[cookie].present
  \/ sessions[cookie].expires <= now

\* C11: a session expires Expiration hours after it was saved, whatever
\* reads happen in between: a save sets the expiry to now + Expiration, every
\* other step (the guard's and the dashboard's reads among them) leaves the
\* expiry of an entry as it is, and a lookup with an expired token gives
\* what a lookup with an unknown token gives: the guard redirects to /login,
\* Login and Register start from empty data under a new id, and the
\* dashboard never renders the payload of an expired entry.
C11_Expiry ==
  [][ /\ \A t \in Tokens :
           /\ SavedAs(t) => sessions'[t].expires = now + Expiration
           /\ ( /\ sessions[t].present
                /\ sessions'[t].present
                /\ ~SavedAs(t) )
              => sessions'[t] = sessions[t]
           /\ sessions'[t].present
              => sessions'[t].expires <= now' + Expiration
      /\ \A r \in Reqs :
           /\ ( /\ req[r].pc = "idle"
                /\ req'[r].kind = "dashboard"
                /\ NoLiveEntry(req'[r].cookie) )
              => req'[r].pc = "done" /\ ToLogin(req'[r])
           /\ ( /\ req[r].pc = "sess"
                /\ req'[r].pc = "save"
                /\ NoLiveEntry(req'[r].cookie) )
              => /\ req'[r].sess.id = NewID
                 /\ req'[r].sess.data.userID = req[r].user.ID
                 /\ req'[r].sess.data.userEmail = req[r].user.Email
           /\ ( /\ req[r].pc = "handler"
                /\ req'[r].pc = "done"
                /\ req'[r].status = "page" )
              => ~NoLiveEntry(req[r].cookie)
    ]_vars

\* A dashboard request with the token of an entry that has expired and is
\* still in the storage has been redirected to /login.
C11_Witness ==
  \E r \in Reqs :
    /\ Done(r)
    /\ req[r].kind = "dashboard"
    /\ req[r].cookie \in Tokens
    /\ sessions[req[r].cookie].present
    /\ sessions[req[r].cookie].expires <= now
    /\ sessions[req[r].cookie].data.keys # {}
    /\ ToLogin(req[r])

\* A /logout request runs sess.Destroy() and returns in this step.
LogoutReturns(r) ==
  /\ req[r].kind = "logout"
  /\ req[r].pc = "destroy"
  /\ req'[r].pc = "done"

\* C12: Logout answers with the redirect to /login whatever the state of
\* the session.  With the token of a live session it loads that session and
\* deletes it; with any other token, or none, it loads a new empty session
\* and changes nothing.  It never touches another token's entry or a user.
\* It is idempotent: after it the token has no live session (unless a
\* Login or Register that had loaded the token saved it while the Logout
\* ran), so a second Logout with the token is the case that changes nothing.
C12_LogoutAlways ==
  [][ \A r \in Reqs :
        /\ (req[r].pc = "idle" /\ req'[r].kind = "logout")
           => /\ req'[r].pc = "destroy"
              /\ sessions' = sessions
              /\ req'[r].sess.id =
                   IF NoLiveEntry(req'[r].cookie) THEN NewID
                   ELSE req'[r].cookie
        /\ LogoutReturns(r)
           => /\ ToLogin(req'[r])
              /\ users' = users
              /\ \A t \in Tokens :
                   t # req[r].cookie => sessions'[t] = sessions[t]
              /\ req[r].sess.id = NewID => sessions' = sessions
              /\ req[r].sess.id # NewID
                 => /\ req[r].sess.id = req[r].cookie
                    /\ sessions'[req[r].cookie] = NoEntry
              /\ (req[r].sess.id # NewID \/ NoLiveEntry(req[r].cookie))
                 => \/ req[r].cookie \notin Tokens
                    \/ ~sessions'[req[r].cookie].present
                    \/ sessions'[req[r].cookie].expires <= now'
    ]_vars

\* A Logout with a token the server has issued has returned with the
\* redirect, and the storage has no entry under the token.
C12_Witness ==
  \E r \in Reqs :
    /\ Done(r)
    /\ req[r].kind = "logout"
    /\ req[r].cookie \in Tokens
    /\ sessions[req[r].cookie] = NoEntry
    /\ ToLogin(req[r])

\* C13 as stated: no request ends in a panic or a server error: every
\* handler that has returned has answered with a rendered page or with a
\* redirect, and the process is up.
C13_NoServerError ==
  /\ up
  /\ \A r \in Reqs : Done(r) => req[r].status \in {"page", "redirect"}

\* The rows a step adds to the users table.
AddedRows == {i \in 1..Len(users') : i > Len(users)}

\* C14: the first start, on an empty table, inserts exactly one demo
\* account; no later step, a start on a non-empty table among them, adds
\* another, so that after any restarts and registrations the table holds
\* exactly one row for the demo email, the first one, with the hash of the
\* demo password; and every Login with the demo credentials succeeds.
C14_Seed ==
  /\ [] /\ Cardinality(Registered(DemoEmail)) = 1
        /\ users[1] = [ID |-> 1, Email |-> DemoEmail,
                        Password |-> Hash(DemoPassword)]
        /\ \A r \in Reqs :
             ( /\ Done(r)
               /\ req[r].kind = "login"
               /\ req[r].email = DemoEmail
               /\ req[r].password = DemoPassword )
             => Success(req[r])
  /\ [][ /\ \A i \in AddedRows : users'[i].Email # DemoEmail
         /\ (\A r \in Reqs : req[r].pc # "create") => users' = users
       ]_vars

\* A Login with the demo credentials has succeeded after other users have
\* registered.
C14_Witness ==
  \E r \in Reqs :
    /\ Done(r)
    /\ req[r].kind = "login"
    /\ req[r].email = DemoEmail
    /\ req[r].password = DemoPassword
    /\ Len(users) >= 2
    /\ Success(req[r])

\* C15: no step updates or deletes a User: the rows of the table stay as
\* they are (ID, Email and PasswordHash), a step adds at most one row, and
\* only the insert of a Register adds one; a step of a Login, a Logout, a
\* protected access or a page GET leaves the table unchanged.
C15_UsersFrame ==
  [][ /\ Len(users') >= Len(users)
      /\ Len(users') <= Len(users) + 1
      /\ \A i \in 1..Len(users) : users'[i] = users[i]
      /\ users' # users
         => \E r \in Reqs :
              /\ req[r].kind = "register"
              /\ req[r].pc = "create"
              /\ req'[r].pc = "sess"
              /\ users'[Len(users')].Email = req[r].email
              /\ users'[Len(users')].Password = Hash(req[r].password)
      /\ \A r \in Reqs :
           ( /\ req'[r] # req[r]
             /\ req[r].kind # "register"
             /\ req'[r].kind # "register" )
           => users' = users
    ]_vars

\* The dashboard has been served while the table holds registered users
\* besides the demo user.
C15_Witness ==
  \E r \in Reqs :
    /\ Done(r)
    /\ req[r].kind = "dashboard"
    /\ req[r].status = "page"
    /\ Len(users) = 3

\* A /login request arrives in this step.
LoginArrives(r) == req[r].pc = "idle" /\ req'[r].kind = "login"

\* The table holds a row with this email and the hash of this password.
Credentials(email, password) ==
  \E i \in Registered(email) : users[i].Password = Hash(password)

\* C16: the credentials of a successful Register stay usable.  When a
\* Register ends with success the table holds its email with the hash of
\* its password; a Logout and a failed Login (the login page with "Invalid
\* credentials") leave the table as it is; a Login with an email and the
\* password stored for it passes the check whatever came before, and ends
\* with the redirect to /dashboard and a live session carrying that email;
\* and the dashboard, read with the token of a live session, shows that
\* session's email.
C16_Relogin ==
  [][ \A r \in Reqs :
        /\ ( /\ req[r].kind = "register"
             /\ req[r].pc = "save"
             /\ req'[r].pc = "done" )
           => \E i \in RegisteredIn(users', req[r].email) :
                users'[i].Password = Hash(req[r].password)
        /\ LogoutReturns(r) => users' = users
        /\ (LoginArrives(r) /\ req'[r].pc = "done")
           => /\ Shows(req'[r], "login", "Invalid credentials")
              /\ users' = users
              /\ sessions' = sessions
        /\ ( /\ LoginArrives(r)
             /\ Credentials(req'[r].email, req'[r].password) )
           => /\ req'[r].pc = "sess"
              /\ req'[r].user.Email = req'[r].email
        /\ ( /\ req[r].kind = "login"
             /\ req[r].pc = "save"
             /\ req'[r].pc = "done" )
           => /\ Success(req'[r])
              /\ req'[r].setCookie \in Tokens
              /\ sessions'[req'[r].setCookie].present
              /\ sessions'[req'[r].setCookie].expires > now'
              /\ sessions'[req'[r].setCookie].data.userEmail = req[r].email
        /\ ( /\ req[r].pc = "idle"
             /\ req'[r].kind = "dashboard"
             /\ ~NoLiveEntry(req'[r].cookie) )
           => req'[r].pc = "handler"
        /\ ( /\ req[r].pc = "handler"
             /\ req'[r].pc = "done"
             /\ ~NoLiveEntry(req[r].cookie) )
           => Shows(req'[r], "dashboard",
                    sessions[req[r].cookie].data.userEmail)
    ]_vars

\* A registered user, whose first session was destroyed, has logged in
\* again without a cookie and holds a second session that carries the
\* registered email.
C16_Witness ==
  \E r \in Reqs :
    /\ Done(r)
    /\ req[r].kind = "login"
    /\ req[r].email = "a@b.com"
    /\ req[r].cookie = NoCookie
    /\ Success(req[r])
    /\ req[r].setCookie = TokenPool[2]
    /\ sessions[TokenPool[1]] = NoEntry
    /\ sessions[TokenPool[2]].data.userEmail = "a@b.com"
    /\ now = 0

\* C17: an entry of the session table comes into being or changes only by
\* the Save of a Login or Register that ends with success (a Logout, the
\* expiry and a restart only remove entries), and the user store is written
\* only by the insert of a Register, which then has no failing step left.
\* A request that ends otherwise than with success (a failed Login; a
\* Register failing on the mismatch, the length, the duplicate, the hash or
\* the insert; a protected access; a page GET) and every step of a handler
\* other than the Save, the insert and the Destroy leave the session table
\* and the user store unchanged.
C17_Frame ==
  [][ /\ \A t \in Tokens :
           (sessions'[t].present /\ sessions'[t] # sessions[t])
           => \E r \in Reqs :
                /\ req[r].kind \in {"login", "register"}
                /\ req[r].pc = "save"
                /\ Success(req'[r])
                /\ req'[r].setCookie = t
      /\ users' # users
         => \E r \in Reqs :
              /\ req[r].kind = "register"
              /\ req[r].pc = "create"
              /\ req'[r].pc = "sess"
      /\ \A r \in Reqs :
           /\ ( /\ req[r].pc # "done"
                /\ req'[r].pc = "done"
                /\ req'[r].kind # "logout"
                /\ ~Success(req'[r]) )
              => users' = users /\ sessions' = sessions
           /\ ( /\ req'[r] # req[r]
                /\ req'[r].pc # "idle"
                /\ req[r].pc \notin {"save", "create", "destroy"} )
              => users' = users /\ sessions' = sessions
           /\ ( /\ req[r].kind = "register"
                /\ req[r].pc \in {"sess", "save"}
                /\ req'[r].pc = "done" )
              => Success(req'[r])
    ]_vars

\* A Login has failed while a session is live and a user has registered.
C17_Witness ==
  \E r \in Reqs :
    /\ Done(r)
    /\ Shows(req[r], "login", "Invalid credentials")
    /\ Len(users) >= 2
    /\ \E t \in Tokens : sessions[t].present /\ sessions[t].expires > now

\* C18 as stated: every request ends with exactly one response: a request
\* in flight is never dropped without an answer, a handler that returns has
\* sent a redirect or a rendered page, and the response of a returned
\* request is not replaced by another.
C18_OneResponse ==
  [][ \A r \in Reqs :
        /\ req[r].pc \notin {"idle", "done"} => req'[r].pc # "idle"
        /\ (req[r].pc # "done" /\ req'[r].pc = "done")
           => req'[r].status \in {"page", "redirect"}
        /\ req[r].pc = "done" => req'[r] \in {req[r], Idle}
    ]_vars

\* C19 as stated: a successful Login or Register stores its payload under
\* a newly generated token, never under the token the request presented.
C19_FreshToken ==
  \A r \in Reqs :
    ( /\ Done(r)
      /\ req[r].kind \in {"login", "register"}
      /\ Success(req[r]) )
    => /\ req[r].setCookie \in Tokens
       /\ req[r].setCookie # req[r].cookie

\* Every entry of the session table that has a userID has a userEmail, and
\* they are the ID and the Email of one row of the users table.
SessionsConsistent ==
  \A t \in Tokens :
    (sessions[t].present /\ "userID" \in sessions[t].data.keys)
    => /\ "userEmail" \in sessions[t].data.keys
       /\ \E i \in 1..Len(users) :
            /\ users[i].ID = sessions[t].data.userID
            /\ users[i].Email = sessions[t].data.userEmail

\* C20 as stated: every session with a userID has a userEmail and both
\* name one persisted User, and hence no /dashboard request that has passed
\* the guard fails in the handler's type assertion on userEmail.
C20_SessionUser ==
  /\ SessionsConsistent
  /\ \A r \in Reqs :
       (Done(r) /\ req[r].kind = "dashboard" /\ ~ToLogin(req[r]))
       => req[r].status = "page"

\* C21: Register reports the first failing check in the order mismatch,
\* length, duplicate email.  A request whose confirmation differs gets
\* "Passwords do not match" whatever the length and the email; one whose
\* passwords match and are shorter than 6 gets the length message whether
\* or not the email is registered; one that passes both and whose email is
\* registered gets "Email already registered"; and no other request gets
\* that message.  Each of them ends in that step, with no cookie and
\* nothing written.
C21_CheckOrder ==
  [][ \A r \in Reqs :
        RegisterArrives(r)
        => /\ req'[r].password # req'[r].confirm
              => /\ req'[r].pc = "done"
                 /\ Shows(req'[r], "register", "Passwords do not match")
           /\ ( /\ req'[r].password = req'[r].confirm
                /\ Len(req'[r].password) < MinPasswordLen )
              => /\ req'[r].pc = "done"
                 /\ Shows(req'[r], "register",
                          "Password must be at least 6 characters")
           /\ ( /\ req'[r].password = req'[r].confirm
                /\ Len(req'[r].password) >= MinPasswordLen
                /\ Registered(req'[r].email) # {} )
              => /\ req'[r].pc = "done"
                 /\ Shows(req'[r], "register", "Email already registered")
           /\ req'[r].msg = "Email already registered"
              => /\ req'[r].password = req'[r].confirm
                 /\ Len(req'[r].password) >= MinPasswordLen
                 /\ Registered(req'[r].email) # {}
           /\ req'[r].pc = "done"
              => users' = users /\ sessions' = sessions
    ]_vars

\* A Register with matching passwords shorter than 6 and a registered
\* email has been answered with the length message.
C21_Witness ==
  \E r \in Reqs :
    /\ RegDone(r)
    /\ req[r].password = req[r].confirm
    /\ Len(req[r].password) < MinPasswordLen
    /\ Registered(req[r].email) # {}
    /\ Shows(req[r], "register", "Password must be at least 6 characters")

\* A handler takes a step for request r.
HandlerStep(r) == req'[r] # req[r] /\ req'[r].pc # "idle"

\* Token t is generated in this step, for the session request r saves.
Issued(r, t) ==
  /\ req[r].pc = "save"
  /\ req[r].sess.id = NewID
  /\ req'[r].setCookie = t
  /\ t = TokenPool[nIssued + 1]
  /\ nIssued' = nIssued + 1
  /\ ~sessions[t].present

\* C22: sessions of different tokens are isolated.  A step of a Login,
\* Register, Logout or protected access that carries token A (or no token)
\* leaves the entry of every other token B as it is, whatever the other
\* request in flight is doing: the only entry besides A's that it can
\* write is the one of a token generated in that step, which had no
\* session.  An entry changes only by a step of a request that carries its
\* token or has it generated, by its own expiry, or by a restart.
C22_Isolation ==
  [][ /\ \A r \in Reqs :
           HandlerStep(r)
           => \A t \in Tokens :
                t # req'[r].cookie
                => sessions'[t] = sessions[t] \/ Issued(r, t)
      /\ \A t \in Tokens :
           sessions'[t] # sessions[t]
           => \/ \E r \in Reqs :
                   /\ HandlerStep(r)
                   /\ req[r].pc \in {"save", "destroy"}
                   /\ req[r].cookie = t \/ Issued(r, t)
              \/ sessions[t].expires <= now /\ sessions'[t] = NoEntry
              \/ \A u \in Tokens : sessions'[u] = NoEntry
    ]_vars

\* A Logout carrying one token has destroyed its session while another
\* request carrying a second token is in flight, and the second token's
\* session is live with its payload.
C22_Witness ==
  \E r, q \in Reqs, t \in Tokens :
    /\ Done(r)
    /\ req[r].kind = "logout"
    /\ req[r].cookie \in Tokens
    /\ sessions[req[r].cookie] = NoEntry
    /\ q # r
    /\ req[q].pc \in {"handler", "save", "destroy"}
    /\ req[q].cookie = t
    /\ t # req[r].cookie
    /\ sessions[t].present
    /\ sessions[t].expires > now
    /\ sessions[t].data.keys = {"userID", "userEmail"}

====
